---- MODULE Spec2Model ----
(***************************************************************************)
(* Model of syftr's two integration utilities:                             *)
(*   - syftr/ray/utils.py        ray_init                                  *)
(*   - syftr/retrievers/remote.py RemoteRetriever, get_remote_retriever    *)
(* Strings are sequences of one-character strings, so that formatting,     *)
(* joining and stripping are computed, not assumed.                        *)
(***************************************************************************)
EXTENDS Integers, Sequences, FiniteSets, TLC

(* ------------------------------ bounds --------------------------------- *)
\* ray_init calls made in one process
MaxCalls == 3

(* --------------------------- string helpers ---------------------------- *)
\* Python's None / a missing environment variable
None == <<"None">>

Threads == {"t1", "t2"}

\* str.startswith / str.endswith for a one-character argument
StartsWith(s, c) == Len(s) > 0 /\ s[1] = c
EndsWith(s, c) == Len(s) > 0 /\ s[Len(s)] = c

\* posixpath.join(a, b)
PathJoin(a, b) ==
    IF StartsWith(b, "/") THEN b
    ELSE IF a = <<>> \/ EndsWith(a, "/") THEN a \o b
    ELSE a \o <<"/">> \o b

\* dict.get(key, default) on os.environ
EnvGet(env, key, default) == IF env[key] = None THEN default ELSE env[key]

TMP == <<"/", "t", "m", "p">>
RAY == <<"r", "a", "y">>

\* values MATHEW_HOME takes in the process environment
MathewHomes == {None, <<"/", "d">>, <<"/", "d", "/">>}
\* values of cfg.ray.remote_endpoint
RemoteEndpoints == {None, <<"r", "a", "y", ":", "/", "/", "h">>}

(* ------------------------------ ray_init ------------------------------- *)
VARIABLES
    is_initialized,   \* ray.is_initialized()
    client_address,   \* ray.client().address of the existing connection
    environ,          \* os.environ, the two variables ray_init touches
    fsdirs,           \* directories that exist
    fsfiles,          \* paths that exist as regular files
    remote_endpoint,  \* cfg.ray.remote_endpoint
    pc,               \* per thread: position inside ray_init
    force_remote,     \* per thread: the argument of the call in progress
    address,          \* per thread: local variable address
    ray_tmpdir,       \* per thread: local variable ray_tmpdir
    outcome,          \* per thread: how the last call ended
    callId,           \* per thread: number of the call in progress
    nCalls,           \* calls started so far
    effects           \* side effects performed so far, in order

rayVars == <<is_initialized, client_address, environ, fsdirs, fsfiles,
             remote_endpoint, pc, force_remote, address, ray_tmpdir, outcome,
             callId, nCalls, effects>>

Effect(op, t, arg, ok, again) ==
    [op |-> op, t |-> t, call |-> callId[t], force |-> force_remote[t],
     arg |-> arg, ok |-> ok, again |-> again]

RayInitState ==
    /\ is_initialized = FALSE
    /\ client_address = None
    /\ \E h \in MathewHomes :
          environ = [k \in {"MATHEW_HOME", "RAY_TMPDIR"} |->
                        IF k = "MATHEW_HOME" THEN h ELSE None]
    /\ \E kind \in {"absent", "dir", "file"} :
          LET p == PathJoin(EnvGet(environ, "MATHEW_HOME", TMP), RAY) IN
          /\ fsdirs = IF kind = "dir" THEN {p} ELSE {}
          /\ fsfiles = IF kind = "file" THEN {p} ELSE {}
    /\ remote_endpoint \in RemoteEndpoints
    /\ pc = [t \in Threads |-> "idle"]
    /\ force_remote = [t \in Threads |-> FALSE]
    /\ address = [t \in Threads |-> None]
    /\ ray_tmpdir = [t \in Threads |-> None]
    /\ outcome = [t \in Threads |-> "none"]
    /\ callId = [t \in Threads |-> 0]
    /\ nCalls = 0
    /\ effects = <<>>

\* a caller enters ray_init(force_remote=fr)
Enter(t, fr) ==
    /\ pc[t] = "idle"
    /\ nCalls < MaxCalls
    /\ nCalls' = nCalls + 1
    /\ callId' = [callId EXCEPT ![t] = nCalls + 1]
    /\ force_remote' = [force_remote EXCEPT ![t] = fr]
    /\ address' = [address EXCEPT ![t] = None]
    /\ ray_tmpdir' = [ray_tmpdir EXCEPT ![t] = None]
    /\ outcome' = [outcome EXCEPT ![t] = "none"]
    /\ pc' = [pc EXCEPT ![t] = "check"]
    /\ UNCHANGED <<is_initialized, client_address, environ, fsdirs, fsfiles,
                   remote_endpoint, effects>>

\* sequential callers: a call starts only when no other call is in progress
CallSeq(t, fr) ==
    /\ \A u \in Threads : pc[u] = "idle"
    /\ Enter(t, fr)

\* concurrent callers: threads enter independently
CallConc(t, fr) == Enter(t, fr)

\* mutant: the is_initialized() guard is dropped
CheckNoGuard(t) ==
    /\ pc[t] = "check"
    /\ LET a == IF force_remote[t] THEN remote_endpoint ELSE None IN
       /\ address' = [address EXCEPT ![t] = a]
       /\ IF a = None
          THEN /\ ray_tmpdir' = [ray_tmpdir EXCEPT ![t] =
                      PathJoin(EnvGet(environ, "MATHEW_HOME", TMP), RAY)]
               /\ pc' = [pc EXCEPT ![t] = "makedirs"]
          ELSE /\ pc' = [pc EXCEPT ![t] = "init"]
               /\ UNCHANGED ray_tmpdir
    /\ UNCHANGED <<is_initialized, client_address, environ, fsdirs, fsfiles,
                   remote_endpoint, force_remote, outcome, callId, nCalls,
                   effects>>

\* mutant: the local setup is skipped, ray.init is reached directly
CheckSkipSetup(t) ==
    /\ pc[t] = "check"
    /\ IF is_initialized
       THEN /\ outcome' = [outcome EXCEPT ![t] = "existing"]
            /\ pc' = [pc EXCEPT ![t] = "idle"]
            /\ UNCHANGED <<address, ray_tmpdir>>
       ELSE LET a == IF force_remote[t] THEN remote_endpoint ELSE None IN
            /\ address' = [address EXCEPT ![t] = a]
            /\ ray_tmpdir' = [ray_tmpdir EXCEPT ![t] =
                   IF a = None
                   THEN PathJoin(EnvGet(environ, "MATHEW_HOME", TMP), RAY)
                   ELSE None]
            /\ pc' = [pc EXCEPT ![t] = "init"]
            /\ UNCHANGED outcome
    /\ UNCHANGED <<is_initialized, client_address, environ, fsdirs, fsfiles,
                   remote_endpoint, force_remote, callId, nCalls, effects>>

\* lines 11-23: the is_initialized() test, the choice of address, and on the
\* local path the computation of ray_tmpdir
Check(t) ==
    /\ pc[t] = "check"
    /\ IF is_initialized
       THEN \* logger.warning("Using existing ray client ..."), then return
            /\ outcome' = [outcome EXCEPT ![t] = "existing"]
            /\ pc' = [pc EXCEPT ![t] = "idle"]
            /\ UNCHANGED <<address, ray_tmpdir>>
       ELSE LET a == IF force_remote[t] THEN remote_endpoint ELSE None IN
            /\ address' = [address EXCEPT ![t] = a]
            /\ IF a = None
               THEN /\ ray_tmpdir' = [ray_tmpdir EXCEPT ![t] =
                           PathJoin(EnvGet(environ, "MATHEW_HOME", TMP), RAY)]
                    /\ pc' = [pc EXCEPT ![t] = "makedirs"]
               ELSE /\ pc' = [pc EXCEPT ![t] = "init"]
                    /\ UNCHANGED ray_tmpdir
            /\ UNCHANGED outcome
    /\ UNCHANGED <<is_initialized, client_address, environ, fsdirs, fsfiles,
                   remote_endpoint, force_remote, callId, nCalls, effects>>

\* mutant: a failure of os.makedirs is swallowed and the call goes on
MakedirsSwallow(t) ==
    /\ pc[t] = "makedirs"
    /\ \E ok \in BOOLEAN :
          /\ ok => ray_tmpdir[t] \notin fsfiles
          /\ fsdirs' = IF ok THEN fsdirs \cup {ray_tmpdir[t]} ELSE fsdirs
          /\ effects' = Append(effects,
                               Effect("makedirs", t, ray_tmpdir[t], ok, FALSE))
          /\ pc' = [pc EXCEPT ![t] = "setenv"]
          /\ UNCHANGED outcome
    /\ UNCHANGED <<is_initialized, client_address, environ, fsfiles,
                   remote_endpoint, force_remote, address, ray_tmpdir, callId,
                   nCalls>>

\* line 24: os.makedirs(ray_tmpdir, exist_ok=True). It fails when the path is
\* a regular file; otherwise it either succeeds (creating the directory, or
\* silently when it is there) or fails (permissions, full or read-only disk)
Makedirs(t) ==
    /\ pc[t] = "makedirs"
    /\ \E ok \in BOOLEAN :
          /\ ok => ray_tmpdir[t] \notin fsfiles
          /\ fsdirs' = IF ok THEN fsdirs \cup {ray_tmpdir[t]} ELSE fsdirs
          /\ effects' = Append(effects,
                               Effect("makedirs", t, ray_tmpdir[t], ok, FALSE))
          /\ IF ok
             THEN /\ pc' = [pc EXCEPT ![t] = "setenv"]
                  /\ UNCHANGED outcome
             ELSE /\ pc' = [pc EXCEPT ![t] = "idle"]
                  /\ outcome' = [outcome EXCEPT ![t] = "OSError"]
    /\ UNCHANGED <<is_initialized, client_address, environ, fsfiles,
                   remote_endpoint, force_remote, address, ray_tmpdir, callId,
                   nCalls>>

\* lines 25-28: os.environ["RAY_TMPDIR"] = ray_tmpdir
Setenv(t) ==
    /\ pc[t] = "setenv"
    /\ environ' = [environ EXCEPT !["RAY_TMPDIR"] = ray_tmpdir[t]]
    /\ effects' = Append(effects, Effect("setenv", t, ray_tmpdir[t], TRUE, FALSE))
    /\ pc' = [pc EXCEPT ![t] = "init"]
    /\ UNCHANGED <<is_initialized, client_address, fsdirs, fsfiles,
                   remote_endpoint, force_remote, address, ray_tmpdir, outcome,
                   callId, nCalls>>

\* mutant: the initialization is guarded by a second is_initialized() test
RayInitRecheck(t) ==
    /\ pc[t] = "init"
    /\ pc' = [pc EXCEPT ![t] = "idle"]
    /\ IF is_initialized
       THEN /\ outcome' = [outcome EXCEPT ![t] = "existing"]
            /\ UNCHANGED <<is_initialized, client_address, effects>>
       ELSE \E ok \in BOOLEAN :
            /\ effects' = Append(effects,
                                 Effect("ray.init", t, address[t], ok, FALSE))
            /\ is_initialized' = ok
            /\ client_address' = IF ok THEN address[t] ELSE client_address
            /\ outcome' = [outcome EXCEPT ![t] =
                              IF ok THEN "returned" ELSE "RayError"]
    /\ UNCHANGED <<environ, fsdirs, fsfiles, remote_endpoint, force_remote,
                   address, ray_tmpdir, callId, nCalls>>

\* mutant: a successful ray.init leaves no connection behind
RayInitForgets(t) ==
    /\ pc[t] = "init"
    /\ pc' = [pc EXCEPT ![t] = "idle"]
    /\ \E ok \in BOOLEAN :
          /\ effects' = Append(effects,
                               Effect("ray.init", t, address[t], ok, is_initialized))
          /\ outcome' = [outcome EXCEPT ![t] =
                            IF ok THEN "returned" ELSE "RayError"]
    /\ UNCHANGED <<is_initialized, client_address, environ, fsdirs, fsfiles,
                   remote_endpoint, force_remote, address, ray_tmpdir, callId,
                   nCalls>>

\* lines 30-33: ray.init(address=address, logging_level=...). Without a
\* connection it either connects or raises (the failure propagates). With a
\* connection already present (reachable only by a race) the client library
\* either raises or returns; the existing connection is kept either way.
RayInit(t) ==
    /\ pc[t] = "init"
    /\ pc' = [pc EXCEPT ![t] = "idle"]
    /\ \E ok \in BOOLEAN :
          /\ effects' = Append(effects,
                               Effect("ray.init", t, address[t], ok, is_initialized))
          /\ is_initialized' = (is_initialized \/ ok)
          /\ client_address' = IF ok /\ ~is_initialized THEN address[t]
                               ELSE client_address
          /\ outcome' = [outcome EXCEPT ![t] =
                            IF ok THEN "returned" ELSE "RayError"]
    /\ UNCHANGED <<environ, fsdirs, fsfiles, remote_endpoint, force_remote,
                   address, ray_tmpdir, callId, nCalls>>


(* -------------------------- RemoteRetriever ---------------------------- *)
\* results per response enumerated exhaustively, and the length of the long
\* responses (long enough for a two-digit result index)
MaxResults == 2
LongResults == 11

DefaultTopK == 10
DefaultTimeout == 30

HTTP == <<"h", "t", "t", "p", ":", "/", "/">>
SEARCH == <<"/", "s", "e", "a", "r", "c", "h">>

BM25 == <<"b", "m", "2", "5">>
DENSE_SMALL == <<"d", "e", "n", "s", "e", "_", "s", "m", "a", "l", "l">>
DENSE_LARGE == <<"d", "e", "n", "s", "e", "_", "l", "a", "r", "g", "e">>
HYBRID_SMALL == <<"h", "y", "b", "r", "i", "d", "_", "s", "m", "a", "l", "l">>
HYBRID_LARGE == <<"h", "y", "b", "r", "i", "d", "_", "l", "a", "r", "g", "e">>

\* method strings a caller may pass: the five registered ones and others
MethodStrings ==
    {BM25, DENSE_SMALL, DENSE_LARGE, HYBRID_SMALL, HYBRID_LARGE,
     <<>>, <<"B", "M", "2", "5">>}

Hosts == {<<"h">>, <<"h", "/">>}
TopKs == {1, DefaultTopK}
Queries == {"q1"}

\* str(int)
DigitChar(d) == <<"0", "1", "2", "3", "4", "5", "6", "7", "8", "9">>[d + 1]
RECURSIVE Digits(_)
Digits(n) ==
    IF n < 10 THEN <<DigitChar(n)>>
    ELSE Digits(n \div 10) \o <<DigitChar(n % 10)>>
Str(n) == IF n < 0 THEN <<"-">> \o Digits(0 - n) ELSE Digits(n)

\* str.rstrip(c)
RECURSIVE RStrip(_, _)
RStrip(s, c) == IF EndsWith(s, c) THEN RStrip(SubSeq(s, 1, Len(s) - 1), c) ELSE s

\* list(d.keys()): the registry's keys in insertion order
RegistryKeys == <<BM25, DENSE_SMALL, DENSE_LARGE, HYBRID_SMALL, HYBRID_LARGE>>

\* mutant: the ports of the two dense services are exchanged
PortsDenseSwapped ==
    [m \in {RegistryKeys[i] : i \in 1..Len(RegistryKeys)} |->
        CASE m = BM25 -> 6030
          [] m = DENSE_SMALL -> 6001
          [] m = DENSE_LARGE -> 6002
          [] m = HYBRID_SMALL -> 6024
          [] m = HYBRID_LARGE -> 6025]

RETRIEVAL_SERVER_PORTS ==
    [m \in {RegistryKeys[i] : i \in 1..Len(RegistryKeys)} |->
        CASE m = BM25 -> 6030
          [] m = DENSE_SMALL -> 6002
          [] m = DENSE_LARGE -> 6001
          [] m = HYBRID_SMALL -> 6024
          [] m = HYBRID_LARGE -> 6025]

\* RemoteRetriever.__init__
NewRemoteRetriever(api_url, retrieval_method, top_k, timeout) ==
    [api_url |-> RStrip(api_url, "/"),
     retrieval_method |-> retrieval_method,
     top_k |-> top_k,
     timeout |-> timeout]

\* what a constructor or factory call gives back: the instance, or the error
Returned(r) == [status |-> "ok", retriever |-> <<r>>, options |-> <<>>]
ValueError(options) ==
    [status |-> "ValueError", retriever |-> <<>>, options |-> options]

\* mutant: an unknown method is not rejected, port 0 stands in for it
FactoryNoValidation(host, retrieval_method, top_k, timeout) ==
    LET port == IF retrieval_method \in DOMAIN RETRIEVAL_SERVER_PORTS
                THEN RETRIEVAL_SERVER_PORTS[retrieval_method] ELSE 0
    IN Returned(NewRemoteRetriever(HTTP \o host \o <<":">> \o Str(port),
                                   retrieval_method, top_k, timeout))

\* get_remote_retriever
Factory(host, retrieval_method, top_k, timeout) ==
    IF retrieval_method \notin DOMAIN RETRIEVAL_SERVER_PORTS
    THEN ValueError(RegistryKeys)
    ELSE LET port == RETRIEVAL_SERVER_PORTS[retrieval_method]
             api_url == HTTP \o host \o <<":">> \o Str(port)
         IN Returned(NewRemoteRetriever(api_url, retrieval_method, top_k, timeout))

(* JSON values of the response, as far as _retrieve looks into them *)
Num(v) == [kind |-> "number", val |-> v]
BadNum == [kind |-> "string", val |-> 0]
Text(v) == [kind |-> "string", val |-> v]
BadText == [kind |-> "number", val |-> "7"]
Meta(v) == [kind |-> "object", val |-> v]
Doc(hasContent, content, hasMeta, meta) ==
    [kind |-> "object", hasContent |-> hasContent, page_content |-> content,
     hasMetadata |-> hasMeta, metadata |-> meta]
NullDoc == [kind |-> "null", hasContent |-> FALSE, page_content |-> Text(""),
            hasMetadata |-> FALSE, metadata |-> Meta({})]
Result(hasScore, score, hasDoc, doc) ==
    [kind |-> "object", hasScore |-> hasScore, score |-> score,
     hasDocument |-> hasDoc, document |-> doc]

\* elements with score, document, page_content and metadata all present
WellFormed ==
    {Result(TRUE, Num(9), TRUE, Doc(TRUE, Text("a"), TRUE, Meta({<<"src", "x">>}))),
     Result(TRUE, Num(-3), TRUE, Doc(TRUE, Text("b"), TRUE, Meta({})))}
\* an element with every optional key absent
Bare == Result(FALSE, Num(0), FALSE, NullDoc)
\* elements the mapping cannot digest
NullDocument == Result(TRUE, Num(4), TRUE, NullDoc)
Malformed ==
    {NullDocument,
     [Bare EXCEPT !.kind = "string"],
     Result(TRUE, BadNum, TRUE, Doc(TRUE, Text("a"), TRUE, Meta({}))),
     Result(TRUE, Num(4), TRUE, Doc(TRUE, BadText, TRUE, Meta({})))}
Elems == WellFormed \cup {Bare, NullDocument}

SeqsUpTo(S, n) == UNION {[1..k -> S] : k \in 0..n}

ResultLists ==
    SeqsUpTo(Elems, MaxResults)
    \cup {[i \in 1..LongResults |-> e] : e \in WellFormed}
    \cup {<<e>> : e \in Malformed}

Body(kind, hasResults, resultsKind, items) ==
    [kind |-> kind, hasResults |-> hasResults, resultsKind |-> resultsKind,
     items |-> items]
Bodies ==
    {Body("object", TRUE, "array", l) : l \in ResultLists}
    \cup {Body("object", FALSE, "array", <<>>),
          Body("object", TRUE, "null", <<>>),
          Body("array", FALSE, "array", <<>>),
          Body("invalid", FALSE, "array", <<>>)}

Response(kind, status, body) == [kind |-> kind, status |-> status, body |-> body]
Responses ==
    {Response(k, 0, Body("invalid", FALSE, "array", <<>>)) :
        k \in {"ConnectionError", "Timeout"}}
    \cup {Response("response", 200, b) : b \in Bodies}
    \cup {Response("response", st, Body("object", TRUE, "array", <<e>>)) :
            st \in {201, 304, 404, 503}, e \in WellFormed}
    \cup {Response("response", st, Body("invalid", FALSE, "array", <<>>)) :
            st \in {304, 404}}

\* hash(str) of the running interpreter: fixed for the empty string,
\* otherwise dependent on the process's hash seed
Hash(seed, content) ==
    IF content = "" THEN 0
    ELSE IF seed = 1 THEN (IF content = "a" THEN 57 ELSE -8)
    ELSE 123

NoNode == [id_ |-> <<>>, text |-> "", metadata |-> {}, score |-> 0]
Ok(v) == [exc |-> "none", value |-> v]
Raise(e) == [exc |-> e, value |-> <<>>]

\* the exceptions of requests.exceptions.RequestException, and everything
\* that derives from Exception
IsRequestException(e) ==
    e \in {"ConnectionError", "Timeout", "HTTPError", "JSONDecodeError"}
IsException(e) ==
    IsRequestException(e) \/ e \in {"AttributeError", "TypeError", "ValidationError"}

\* mutant: the result index is left out of the identifier
NodeIdNoIndex(retrieval_method, idx, h) ==
    retrieval_method \o <<"_">> \o Str(h)

\* f"{self.retrieval_method}_{idx}_{hash(page_content)}"
NodeId(retrieval_method, idx, h) ==
    retrieval_method \o <<"_">> \o Str(idx) \o <<"_">> \o Str(h)

\* lines 77-96: one iteration of the loop, idx counted from 0
MapResult(retrieval_method, seed, idx, result) ==
    IF result.kind # "object" THEN [exc |-> "AttributeError", node |-> NoNode]
    ELSE
    LET score == IF result.hasScore THEN result.score ELSE Num(0)
        document == result.document
    IN  IF result.hasDocument /\ document.kind # "object"
        THEN [exc |-> "AttributeError", node |-> NoNode]
        ELSE
        LET hasDoc == result.hasDocument
            page_content == IF hasDoc /\ document.hasContent
                            THEN document.page_content ELSE Text("")
            metadata == IF hasDoc /\ document.hasMetadata
                        THEN document.metadata ELSE Meta({})
        IN  IF \/ page_content.kind # "string"
               \/ metadata.kind # "object"
               \/ score.kind # "number"
            THEN [exc |-> "ValidationError", node |-> NoNode]
            ELSE [exc |-> "none",
                  node |-> [id_ |-> NodeId(retrieval_method, idx,
                                           Hash(seed, page_content.val)),
                            text |-> page_content.val,
                            metadata |-> metadata.val,
                            score |-> score.val]]

\* lines 57-98: the body of the try block
TryBody(self, seed, resp) ==
    IF resp.kind # "response" THEN Raise(resp.kind)
    ELSE IF resp.status >= 400 /\ resp.status < 600 THEN Raise("HTTPError")
    ELSE IF resp.body.kind = "invalid" THEN Raise("JSONDecodeError")
    ELSE IF resp.body.kind # "object" THEN Raise("AttributeError")
    ELSE IF resp.body.hasResults /\ resp.body.resultsKind # "array"
         THEN Raise("TypeError")
    ELSE
    LET results == IF resp.body.hasResults THEN resp.body.items ELSE <<>>
        mapped == [i \in 1..Len(results) |->
                      MapResult(self.retrieval_method, seed, i - 1, results[i])]
        failed == {i \in 1..Len(results) : mapped[i].exc # "none"}
    IN  IF failed # {}
        THEN Raise(mapped[CHOOSE i \in failed : \A j \in failed : i <= j].exc)
        ELSE Ok([i \in 1..Len(results) |-> mapped[i].node])

\* mutant: only the requests exceptions are caught
HandleRequestOnly(r) ==
    IF r.exc = "none" THEN [raised |-> "none", nodes |-> r.value]
    ELSE IF IsRequestException(r.exc) THEN [raised |-> "none", nodes |-> <<>>]
    ELSE [raised |-> r.exc, nodes |-> <<>>]

\* lines 100-106: the two except clauses
Handle(r) ==
    IF r.exc = "none" THEN [raised |-> "none", nodes |-> r.value]
    ELSE IF IsRequestException(r.exc) THEN [raised |-> "none", nodes |-> <<>>]
    ELSE IF IsException(r.exc) THEN [raised |-> "none", nodes |-> <<>>]
    ELSE [raised |-> r.exc, nodes |-> <<>>]

VARIABLES
    hashseed,   \* the interpreter's string-hash seed
    self,       \* the retriever in use: <<>> or <<instance>>
    made,       \* what the last get_remote_retriever call gave back
    madeArgs,   \* the arguments of that call
    request,    \* the last request _retrieve posted
    response,   \* what came back for it
    result      \* what that _retrieve call gave its caller

retrVars == <<hashseed, self, made, madeArgs, request, response, result>>

NoRequest == [url |-> <<>>, query |-> "", k |-> 0, timeout |-> 0]
NoResponse == Response("none", 0, Body("invalid", FALSE, "array", <<>>))
NoResult == [raised |-> "none", nodes |-> <<>>]
NoArgs == [host |-> <<>>, retrieval_method |-> <<>>, top_k |-> 0, timeout |-> 0]

RetrieverIdle ==
    /\ self = <<>>
    /\ made = [status |-> "none", retriever |-> <<>>, options |-> <<>>]
    /\ madeArgs = NoArgs
    /\ request = NoRequest
    /\ response = NoResponse
    /\ result = NoResult

\* a caller runs get_remote_retriever and keeps what it returns: the new
\* instance, or nothing when the call raised
GetRemoteRetriever(host, retrieval_method, top_k, timeout) ==
    LET got == Factory(host, retrieval_method, top_k, timeout) IN
    /\ made' = got
    /\ madeArgs' = [host |-> host, retrieval_method |-> retrieval_method,
                    top_k |-> top_k, timeout |-> timeout]
    /\ self' = got.retriever
    /\ request' = NoRequest
    /\ response' = NoResponse
    /\ result' = NoResult
    /\ UNCHANGED hashseed

\* self._retrieve(QueryBundle(query_str)), the service answering resp
Retrieve(query_str, resp) ==
    /\ self # <<>>
    /\ LET r == self[1] IN
       /\ request' = [url |-> r.api_url \o SEARCH, query |-> query_str,
                      k |-> r.top_k, timeout |-> r.timeout]
       /\ response' = resp
       /\ result' = Handle(TryBody(r, hashseed, resp))
    /\ UNCHANGED <<hashseed, self, made, madeArgs>>

vars == <<rayVars, retrVars>>

Init == RayInitState /\ hashseed = 1 /\ RetrieverIdle

Next ==
    \E t \in Threads :
        \/ \E fr \in BOOLEAN : CallSeq(t, fr) /\ UNCHANGED retrVars
        \/ Check(t) /\ UNCHANGED retrVars
        \/ Makedirs(t) /\ UNCHANGED retrVars
        \/ Setenv(t) /\ UNCHANGED retrVars
        \/ RayInit(t) /\ UNCHANGED retrVars

\* sequential calls of ray_init
Spec == Init /\ [][Next]_vars

NextRace ==
    \E t \in Threads :
        \/ \E fr \in BOOLEAN : CallConc(t, fr) /\ UNCHANGED retrVars
        \/ Check(t) /\ UNCHANGED retrVars
        \/ Makedirs(t) /\ UNCHANGED retrVars
        \/ Setenv(t) /\ UNCHANGED retrVars
        \/ RayInit(t) /\ UNCHANGED retrVars

\* concurrent calls of ray_init from two threads
SpecRace == Init /\ [][NextRace]_vars

NextRetriever ==
    \/ \E h \in Hosts, m \in MethodStrings, k \in TopKs :
          GetRemoteRetriever(h, m, k, DefaultTimeout) /\ UNCHANGED rayVars
    \/ \E q \in Queries, resp \in Responses :
          Retrieve(q, resp) /\ UNCHANGED rayVars

InitRetriever ==
    /\ RayInitState
    /\ environ["MATHEW_HOME"] = None
    /\ fsdirs = {} /\ fsfiles = {}
    /\ remote_endpoint = None
    /\ hashseed \in {1, 2}
    /\ RetrieverIdle

\* use of the retriever
SpecRetriever == InitRetriever /\ [][NextRetriever]_vars

(* ------------------------------- claims -------------------------------- *)
EffectIdx(op) == {i \in DOMAIN effects : effects[i].op = op}
LastEffect(fx) == fx[Len(fx)]

\* C1: a ray_init call that finds a connection (either value of force_remote)
\* returns at once: no directory is created, RAY_TMPDIR is not written,
\* ray.init is not called, the connection and its address stay as they are.
C1_ExistingConnectionNoOp ==
    [][\A t \in Threads :
          (pc[t] = "check" /\ is_initialized /\ pc'[t] # "check")
          => /\ pc'[t] = "idle"
             /\ outcome'[t] = "existing"
             /\ is_initialized' /\ client_address' = client_address
             /\ environ' = environ /\ fsdirs' = fsdirs /\ fsfiles' = fsfiles
             /\ effects' = effects]_vars

C1_Witness ==
    \E t \in Threads :
        /\ pc[t] = "idle" /\ outcome[t] = "existing" /\ force_remote[t]
        /\ remote_endpoint # None /\ client_address = None

\* C2 as stated: over any sequence of sequential calls, directory creation,
\* RAY_TMPDIR setup and ray.init each happen at most once.
C2_SetupOnlyOnce ==
    \A op \in {"makedirs", "setenv", "ray.init"} : Cardinality(EffectIdx(op)) <= 1

\* C2 amended: once a ray_init call has succeeded, every later call is a pure
\* no-op: nothing is performed after the successful ray.init, which therefore
\* happens once, with at most one directory creation and one RAY_TMPDIR
\* setup in its call.
C2_NoSetupAfterSuccess ==
    \A i \in EffectIdx("ray.init") :
        effects[i].ok =>
            /\ i = Len(effects)
            /\ is_initialized
            /\ \A op \in {"makedirs", "setenv"} :
                  Cardinality({j \in EffectIdx(op) :
                                  effects[j].call = effects[i].call}) <= 1

C2_Witness ==
    /\ is_initialized
    /\ LastEffect(effects).call = 1
    /\ nCalls = MaxCalls
    /\ \A t \in Threads : pc[t] = "idle" /\ outcome[t] = "existing"

\* C7 as stated: with force_remote the call connects to the configured
\* endpoint and does no local setup, whatever the endpoint's value; without
\* it the call connects locally (address None) after the local setup.
C7_ForceRemoteSkipsLocalSetup ==
    \A i \in DOMAIN effects :
        LET e == effects[i] IN
        /\ e.force => e.op = "ray.init" /\ e.arg = remote_endpoint
        /\ (~e.force /\ e.op = "ray.init")
              => e.arg = None /\ i > 2 /\ effects[i - 1].op = "setenv"

\* C8: on the local path the directory {MATHEW_HOME or /tmp}/ray exists
\* before RAY_TMPDIR is set to it, and RAY_TMPDIR is set to it before ray.init
\* is invoked; ray.init never runs locally with RAY_TMPDIR unset or naming a
\* missing directory.
ExpectedTmpdir ==
    CASE environ["MATHEW_HOME"] = None ->
            <<"/", "t", "m", "p", "/", "r", "a", "y">>
      [] environ["MATHEW_HOME"] = <<"/", "d">> -> <<"/", "d", "/", "r", "a", "y">>
      [] environ["MATHEW_HOME"] = <<"/", "d", "/">> ->
            <<"/", "d", "/", "r", "a", "y">>

C8_LocalSetupOrder ==
    /\ \A t \in Threads :
          /\ pc[t] = "setenv" => ray_tmpdir[t] = ExpectedTmpdir
                                 /\ ray_tmpdir[t] \in fsdirs
          /\ (pc[t] = "init" /\ address[t] = None)
                => /\ environ["RAY_TMPDIR"] = ExpectedTmpdir
                   /\ ExpectedTmpdir \in fsdirs
    /\ \A i \in EffectIdx("ray.init") :
          effects[i].arg = None
          => /\ i > 2
             /\ effects[i - 1].op = "setenv"
             /\ effects[i - 1].arg = ExpectedTmpdir
             /\ effects[i - 1].call = effects[i].call
             /\ effects[i - 2].op = "makedirs"
             /\ effects[i - 2].ok
             /\ effects[i - 2].arg = ExpectedTmpdir
             /\ effects[i - 2].call = effects[i].call

C8_Witness ==
    /\ Len(effects) = 3
    /\ LastEffect(effects).op = "ray.init"
    /\ LastEffect(effects).arg = None
    /\ environ["MATHEW_HOME"] = <<"/", "d", "/">>
    /\ fsfiles = {}

\* C9: a failed directory creation ends the call with the error, without a
\* retry: the call performs nothing else (RAY_TMPDIR is not written, ray.init
\* is not invoked), RAY_TMPDIR keeps its previous value and there is no
\* connection afterwards.
PreviousTmpdir(i) ==
    LET before == {j \in EffectIdx("setenv") : j < i} IN
    IF before = {} THEN None
    ELSE effects[CHOOSE j \in before : \A k \in before : k <= j].arg

C9_MakedirsFailurePropagates ==
    \A i \in EffectIdx("makedirs") :
        ~effects[i].ok =>
            /\ \A j \in DOMAIN effects :
                  j # i => effects[j].call # effects[i].call
            /\ callId[effects[i].t] = effects[i].call
                  => /\ pc[effects[i].t] = "idle"
                     /\ outcome[effects[i].t] = "OSError"
            /\ i = Len(effects)
                  => /\ environ["RAY_TMPDIR"] = PreviousTmpdir(i)
                     /\ ~is_initialized

C9_Witness ==
    /\ Len(effects) > 1
    /\ LastEffect(effects).op = "makedirs"
    /\ ~LastEffect(effects).ok
    /\ environ["RAY_TMPDIR"] # None
    /\ \A t \in Threads : pc[t] = "idle"

\* C10: the is_initialized() test and ray.init are not atomic and no lock
\* guards them: a thread that has passed the test invokes ray.init whatever
\* the connection state has become, so two concurrent first-time calls can
\* both initialize.
C10_InitNotGuarded ==
    [][\A t \in Threads :
          (pc[t] = "init" /\ pc'[t] # "init")
          => /\ Len(effects') = Len(effects) + 1
             /\ LastEffect(effects').op = "ray.init"
             /\ LastEffect(effects').t = t
             /\ LastEffect(effects').again = is_initialized]_vars

\* both threads saw no connection before either initialized, and both
\* invoked ray.init, the second one with the connection already there
C10_Witness ==
    /\ nCalls = 2
    /\ Cardinality(EffectIdx("ray.init")) = 2
    /\ \E i, j \in EffectIdx("ray.init") :
          /\ i < j
          /\ effects[i].t # effects[j].t
          /\ effects[i].ok /\ ~effects[i].again
          /\ effects[j].again

(* retriever *)
Items == response.body.items
KnownMethods == {BM25, DENSE_SMALL, DENSE_LARGE, HYBRID_SMALL, HYBRID_LARGE}
Answered == response.kind = "response"
MappingFails ==
    /\ Answered /\ response.body.kind = "object"
    /\ response.body.hasResults
    /\ \/ response.body.resultsKind # "array"
       \/ \E i \in DOMAIN Items : Items[i] \in Malformed
Unparsable == Answered /\ response.body.kind # "object"

C4_WellFormedResultsMapped ==
    (/\ Answered /\ response.status \in 200..299
     /\ response.body.kind = "object"
     /\ response.body.hasResults /\ response.body.resultsKind = "array"
     /\ \A i \in DOMAIN Items : Items[i] \in WellFormed)
    => /\ result.raised = "none"
       /\ Len(result.nodes) = Len(Items)
       /\ \A i \in DOMAIN Items :
             /\ result.nodes[i].score = Items[i].score.val
             /\ result.nodes[i].text = Items[i].document.page_content.val
             /\ result.nodes[i].metadata = Items[i].document.metadata.val
       /\ \A i, j \in DOMAIN Items :
             i # j => result.nodes[i].id_ # result.nodes[j].id_

C4_Witness ==
    /\ Answered /\ response.status = 200
    /\ Len(result.nodes) = LongResults
    /\ self[1].top_k = 1
    /\ hashseed = 2
    /\ \A i \in DOMAIN Items : Items[i] = Items[1]

\* C5: for a method string outside the five registry keys the factory fails
\* with an error listing the valid options and constructs no retriever.
C5_UnknownMethodRejected ==
    (made.status # "none" /\ madeArgs.retrieval_method \notin KnownMethods)
    => /\ made.status = "ValueError"
       /\ made.retriever = <<>>
       /\ self = <<>>
       /\ {made.options[i] : i \in DOMAIN made.options} = KnownMethods

C5_Witness ==
    /\ made.status = "ValueError"
    /\ madeArgs.retrieval_method = <<"B", "M", "2", "5">>

\* C6: for each of the five methods and every host the factory returns a
\* retriever bound to that method with base URL http://{host}:{port}, port as
\* registered, and every later retrieve on it posts to that URL plus /search.
RegisteredPort(m) ==
    CASE m = BM25 -> <<"6", "0", "3", "0">>
      [] m = DENSE_SMALL -> <<"6", "0", "0", "2">>
      [] m = DENSE_LARGE -> <<"6", "0", "0", "1">>
      [] m = HYBRID_SMALL -> <<"6", "0", "2", "4">>
      [] m = HYBRID_LARGE -> <<"6", "0", "2", "5">>

C6_FactoryBindsRegisteredPort ==
    (made.status # "none" /\ madeArgs.retrieval_method \in KnownMethods)
    => LET url == <<"h", "t", "t", "p", ":", "/", "/">> \o madeArgs.host
                  \o <<":">> \o RegisteredPort(madeArgs.retrieval_method)
       IN /\ made.status = "ok"
          /\ self = made.retriever
          /\ self[1].retrieval_method = madeArgs.retrieval_method
          /\ self[1].api_url = url
          /\ self[1].top_k = madeArgs.top_k
          /\ request # NoRequest
                => request.url = url \o <<"/", "s", "e", "a", "r", "c", "h">>

C6_Witness ==
    /\ made.status = "ok"
    /\ madeArgs.retrieval_method = DENSE_LARGE
    /\ madeArgs.host = <<"h", "/">>
    /\ request # NoRequest
    /\ result.nodes # <<>>

====
